---- MODULE Spec2Model ----
(***************************************************************************)
(* Model of the JiaMu social-network dashboard, in its three variants:     *)
(*   "v1"  src/streamlit_page.py            (class JiaMuStreamlitApp)      *)
(*   "v2"  src/streamlit_page_new.py        (class JiaMuStreamlitApp)      *)
(*   "v3"  src/Project/stream_page_new1.py  (class JiaMuAnalyzer)          *)
(*                                                                         *)
(* Character identifiers are written in pinyin (TLA+ strings are ASCII):   *)
(* "JiaMu" stands for the focal node of the source.                        *)
(*                                                                         *)
(* Modelling conventions.                                                  *)
(*  - An attribute of the app object is an option value: Unset (never      *)
(*    assigned, reading it raises AttributeError), None, or Some(v).       *)
(*  - A top-level field of the JSON artifact is Missing (key absent),      *)
(*    Falsy (null, {} or []) or Some(v).                                   *)
(*  - Floating point is read as exact real arithmetic.  Angles are counted *)
(*    in degrees (TwoPi = 360), a point (r cos a, r sin a) is kept in      *)
(*    polar form [radius |-> r, angle |-> a].                              *)
(*  - The reconstructed graph is an undirected simple graph (the artifact  *)
(*    is written from an nx.Graph: "directed" and "multigraph" are false). *)
(*  - DataFrame.sort_values runs numpy's quicksort, which is not stable   *)
(*    but is deterministic: the order it gives rows of equal weight is any *)
(*    order, and the same order each time the same table is sorted.        *)
(*  - show_environment_check and the charting calls (px.bar, px.pie and   *)
(*    the streamlit widgets) are presentation glue, taken to complete.     *)
(***************************************************************************)
EXTENDS Integers, Sequences, FiniteSets, TLC

VARIABLES
    variant,   \* which of the three programs runs
    env,       \* NETWORKX_AVAILABLE, PLOTLY_AVAILABLE
    file,      \* the artifact output/step3_data.json
    pc,        \* "start", "ready" (app constructed), "exited" (main returned early)
    app,       \* the attributes of the app object
    sorting,   \* the orders sort_values has given the rows of the metrics table
    lastLoad,  \* outcome of the last load_data: "none", "ok", "NotFound", "Malformed"
    loads,     \* number of load_data runs that completed successfully
    view,      \* what the last view rendered
    seen,      \* history: what each section of Tracked rendered the first time
    again      \* history: the section of the last view had rendered before

vars == <<variant, env, file, pc, app, sorting, lastLoad, loads, view, seen, again>>

----------------------------------------------------------------------------
(* Bounds of the model *)

MaxLinks == 3      \* links in the node-link encoding of the graph family
MaxFree  == 3      \* freely chosen rows at the head of a metrics table
MaxPad   == 20     \* further rows, of distinct weights, after them
MaxRuns  == 2      \* successful loads counted before the counter saturates

----------------------------------------------------------------------------
(* Option values *)

Unset   == [k |-> "unset"]
None    == [k |-> "none"]
Missing == [k |-> "missing"]
Falsy   == [k |-> "falsy"]
Some(x) == [k |-> "some", v |-> x]

IsSome(o) == o.k = "some"

Min(a, b) == IF a <= b THEN a ELSE b

InSeq(x, s) == \E i \in 1..Len(s) : s[i] = x

Range(s) == {s[i] : i \in 1..Len(s)}

----------------------------------------------------------------------------
(* Characters and the classifier *)

Focal == "JiaMu"

TypeOrder == <<"family_male", "family_female", "servants", "guests">>

character_types ==
    [family_male   |-> {"JiaZheng", "JiaShe", "JiaLian", "JiaBaoyu", "JiaRong",
                        "JiaQiang", "JiaLan", "JiaYun", "JiaQin", "JiaHuan", "JiaRui"},
     family_female |-> {"WangFuren", "XingFuren", "WangXifeng", "JiaTanchun",
                        "JiaYingchun", "JiaXichun", "JiaYuanchun"},
     servants      |-> {"HuaXiren", "Yuanyang", "Qingwen", "Sheyue", "Qiuwen",
                        "Bihen", "Pinger", "Zijuan"},
     guests        |-> {"LinDaiyu", "XueBaochai", "ShiXiangyun", "Miaoyu", "LiWan",
                        "QinKeqing", "Xiangling"}]

RECURSIVE FirstType(_, _)
FirstType(character, i) ==
    IF i > Len(TypeOrder) THEN "other"
    ELSE IF character \in character_types[TypeOrder[i]] THEN TypeOrder[i]
    ELSE FirstType(character, i + 1)

\* get_character_type with the scan of the lists begun at the second list
get_character_type_from_second(character) == FirstType(character, 2)

get_character_type(character) == FirstType(character, 1)

\* v3 classifies by the characters of the name.  Containing[c]: the names of
\* the cast that contain the character c (jia, ren, er of the source).
Containing ==
    [jia |-> {Focal} \cup character_types.family_male
                 \cup {"JiaTanchun", "JiaYingchun", "JiaXichun", "JiaYuanchun"},
     ren |-> {"WangFuren", "XingFuren", "HuaXiren"},
     er  |-> {"Pinger"}]

\* v3: the labels JiaZuChengYuan (family member), PuRen (servant), KeRen (guest)
simple_type(neighbor) ==
    IF neighbor \in Containing.jia THEN "JiaZuChengYuan"
    ELSE IF neighbor \in Containing.ren \/ neighbor \in Containing.er THEN "PuRen"
    ELSE "KeRen"

----------------------------------------------------------------------------
(* The graph: nx.node_link_graph and the queries the views use.            *)
(* nodes: the nodes in insertion order; adj[n]: the neighbours of n in     *)
(* insertion order; weight[<<u, v>>]: the weight attribute of edge u-v.    *)

EmptyGraph == [nodes |-> <<>>, adj |-> <<>>, weight |-> <<>>]

has_node(G, n) == InSeq(n, G.nodes)

add_node(G, n) ==
    IF has_node(G, n) THEN G
    ELSE [G EXCEPT !.nodes = Append(@, n), !.adj = (n :> <<>>) @@ @]

\* add_edge that records the edge from u to v only
add_edge_one_way(G, u, v, w) ==
    LET G1   == add_node(add_node(G, u), v)
        adj1 == [G1.adj EXCEPT ![u] = IF InSeq(v, @) THEN @ ELSE Append(@, v)]
    IN  [nodes  |-> G1.nodes,
         adj    |-> adj1,
         weight |-> (<<u, v>> :> w) @@ G1.weight]

\* Graph.add_edge: both endpoints are added when new, the edge data of an
\* existing edge is updated in place, and adj[u][v], adj[v][u] share it.
add_edge(G, u, v, w) ==
    LET G1   == add_node(add_node(G, u), v)
        adj1 == [G1.adj EXCEPT ![u] = IF InSeq(v, @) THEN @ ELSE Append(@, v)]
        adj2 == [adj1 EXCEPT ![v] = IF InSeq(u, @) THEN @ ELSE Append(@, u)]
    IN  [nodes  |-> G1.nodes,
         adj    |-> adj2,
         weight |-> (<<u, v>> :> w) @@ (<<v, u>> :> w) @@ G1.weight]

RECURSIVE add_nodes_from(_, _, _)
add_nodes_from(G, ns, i) ==
    IF i > Len(ns) THEN G ELSE add_nodes_from(add_node(G, ns[i]), ns, i + 1)

RECURSIVE add_edges_from(_, _, _)
add_edges_from(G, ls, i) ==
    IF i > Len(ls) THEN G
    ELSE add_edges_from(add_edge(G, ls[i].source, ls[i].target, ls[i].weight), ls, i + 1)

node_link_graph(net) ==
    add_edges_from(add_nodes_from(EmptyGraph, net.nodes, 1), net.links, 1)

number_of_nodes(G) == Len(G.nodes)

number_of_edges(G) == Cardinality({{p[1], p[2]} : p \in DOMAIN G.weight})

neighbors(G, n) == G.adj[n]

has_edge(G, u, v) == <<u, v>> \in DOMAIN G.weight

\* bool(G): a Graph is falsy when it has no nodes (Graph.__len__)
truthy(G) == number_of_nodes(G) > 0

\* G.degree(n): the edges at n, a self-loop counted twice
degree(G, n) == Len(G.adj[n]) + (IF InSeq(n, G.adj[n]) THEN 1 ELSE 0)

\* G.subgraph(nbunch): the nodes of G that are in nbunch, in the order of G,
\* and the edges of G between them
subgraph(G, nbunch) ==
    LET kept == SelectSeq(G.nodes, LAMBDA n : InSeq(n, nbunch))
    IN  [nodes  |-> kept,
         adj    |-> [n \in Range(kept) |-> SelectSeq(G.adj[n], LAMBDA m : InSeq(m, nbunch))],
         weight |-> [p \in {q \in DOMAIN G.weight : InSeq(q[1], nbunch) /\ InSeq(q[2], nbunch)}
                        |-> G.weight[p]]]

\* the edges reported at the i-th node: (n, nbr) for the nbr of adj[n] that
\* is not a node reported before (seen)
edges_at(G, i) ==
    LET n     == G.nodes[i]
        fresh == SelectSeq(G.adj[n], LAMBDA m : ~InSeq(m, SubSeq(G.nodes, 1, i - 1)))
    IN  [k \in 1..Len(fresh) |-> <<n, fresh[k]>>]

RECURSIVE edges_from(_, _)
edges_from(G, i) ==
    IF i > Len(G.nodes) THEN <<>> ELSE edges_at(G, i) \o edges_from(G, i + 1)

\* G.edges(): each edge of an undirected graph once, a self-loop once
edges(G) == edges_from(G, 1)

\* a quotient num / den, kept exact
Frac(num, den) == [num |-> num, den |-> den]

\* nx.density(G), for an undirected graph: 0 if m == 0 or n <= 1, else
\* 2 * m / (n * (n - 1))
density(G) ==
    LET n == number_of_nodes(G)
        m == number_of_edges(G)
    IN  IF m = 0 \/ n <= 1 THEN Frac(0, 1) ELSE Frac(2 * m, n * (n - 1))

----------------------------------------------------------------------------
(* The metrics table: a pandas DataFrame as the sequence of its rows.  idx *)
(* is the row's index label, which filtering and sorting carry along.      *)

\* filter_positive with the comparison >= 0 in place of > 0
filter_nonnegative(df) == SelectSeq(df, LAMBDA r : r.weight_to_jiamu >= 0)

\* df[df['weight_to_jiamu'] > 0].copy()
filter_positive(df) == SelectSeq(df, LAMBDA r : r.weight_to_jiamu > 0)

\* DataFrame.head(k)
head(df, k) == SubSeq(df, 1, Min(k, Len(df)))

Orderings(C) ==
    {p \in [1..Cardinality(C) -> C] : \A i, j \in 1..Cardinality(C) : p[i] = p[j] => i = j}

\* The orders of the rows S of df that are sorted by weight_to_jiamu.
RECURSIVE SortedOrders(_, _, _)
SortedOrders(df, S, ascending) ==
    IF S = {} THEN {<<>>}
    ELSE LET first == CHOOSE w \in {df[i].weight_to_jiamu : i \in S} :
                          \A j \in S : IF ascending THEN w <= df[j].weight_to_jiamu
                                                    ELSE w >= df[j].weight_to_jiamu
             C     == {i \in S : df[i].weight_to_jiamu = first}
         IN  {p \o rest : p \in Orderings(C), rest \in SortedOrders(df, S \ C, ascending)}

\* sort_values whose order of equal weights is chosen anew at every call
sort_values_anew(df, ascending, known) ==
    {[i \in 1..Len(df) |-> df[p[i]]] : p \in SortedOrders(df, 1..Len(df), ascending)}

\* DataFrame.sort_values('weight_to_jiamu', ascending=...) with the default
\* kind='quicksort', which is not a stable sort: rows of equal weight come
\* out in an order the implementation chooses.  The set of possible results;
\* known is the result of an earlier call in the same direction, if any.
sort_values(df, ascending, known) ==
    IF known.k = "some" THEN {known.v}
    ELSE {[i \in 1..Len(df) |-> df[p[i]]] : p \in SortedOrders(df, 1..Len(df), ascending)}

\* list.sort(key=lambda x: x[1], reverse=True): Python's sort is stable, also
\* with reverse=True (equal elements keep their order).
RECURSIVE sort_reverse(_, _)
sort_reverse(pairs, S) ==
    IF S = {} THEN <<>>
    ELSE LET i == CHOOSE i \in S : \A j \in S :
                      \/ pairs[i].weight > pairs[j].weight
                      \/ pairs[i].weight = pairs[j].weight /\ i <= j
         IN  <<pairs[i]>> \o sort_reverse(pairs, S \ {i})

\* the sum of the weights of the rows of type t, from row i on
RECURSIVE sum_of_type(_, _, _)
sum_of_type(rows, t, i) ==
    IF i > Len(rows) THEN 0
    ELSE (IF rows[i].type = t THEN rows[i].weight ELSE 0) + sum_of_type(rows, t, i + 1)

\* groupby_sum with first() in place of sum()
groupby_first(rows) ==
    [t \in {rows[i].type : i \in 1..Len(rows)} |->
        rows[CHOOSE j \in 1..Len(rows) :
                 rows[j].type = t /\ \A k \in 1..(j - 1) : rows[k].type # t].weight]

\* df_neighbors.groupby('type')['weight'].sum(): one entry for each type that
\* occurs in the rows
groupby_sum(rows) ==
    [t \in {rows[i].type : i \in 1..Len(rows)} |-> sum_of_type(rows, t, 1)]

----------------------------------------------------------------------------
(* Program constants *)

radius     == 2     \* radius = 2.0
TwoPi      == 360   \* 2 * pi, in degrees
ChartV1    == 15    \* top_15 = jiamu_related.head(15)
DetailV1   == 20    \* jiamu_related[...].head(20)
CentralV1  == 10    \* top_10 = jiamu_related.head(10)
TopNbrsV1  == 10    \* neighbor_strengths[:10]
ChartV2    == 10    \* top_10 = jiamu_related.head(10)
CentralV2  == 8     \* valid_chars = ....head(8)
ChartV3    == 10    \* top_10 = jiamu_related.head(10)

----------------------------------------------------------------------------
(* The radial layout of create_central_network_plot *)

Origin == [radius |-> 0, angle |-> 0]

\* angle_step with the count of central_nodes in place of the neighbours'
angle_step_central(n) == TwoPi \div (n + 1)

\* angle_step = 2 * pi / len(jiamu_neighbors)
angle_step(n) == TwoPi \div n

\* for i, node in enumerate(jiamu_neighbors): pos[node] = (x, y)
RECURSIVE place(_, _, _)
place(pos, nbrs, i) ==
    IF i >= Len(nbrs) THEN pos
    ELSE place((nbrs[i + 1] :> [radius |-> radius, angle |-> i * angle_step(Len(nbrs))]) @@ pos,
               nbrs, i + 1)

layout(nbrs) == place((Focal :> Origin), nbrs, 0)

\* cos and sin, on the quarter turns, where they are integers
cos(a) == CASE a = 0 -> 1 [] a = 90 -> 0 [] a = 180 -> -1 [] a = 270 -> 0
sin(a) == CASE a = 0 -> 0 [] a = 90 -> 1 [] a = 180 -> 0 [] a = 270 -> -1

----------------------------------------------------------------------------
(* load_data, in the three variants.  Each returns the attributes of the   *)
(* app after the call and the outcome: "ok", "NotFound" or "Malformed".    *)

\* relationship_type_analysis = step3_data.get('relationship_type_analysis', {})
get_rta(d) ==
    CASE d.relationship_type_analysis.k = "missing" -> Some(<<>>)
      [] d.relationship_type_analysis.k = "falsy"   -> None
      [] OTHER                                      -> d.relationship_type_analysis

\* json.load(f) of a parsable artifact: the object read, or None when the
\* text of the artifact is null
parsed(f) == IF f.data = None THEN None ELSE Some(f.data)

\* v1: the attributes exist only once load_data has assigned them
NoAttributes ==
    [data_loaded |-> FALSE, step3_data |-> Unset, G |-> Unset, metrics |-> Unset,
     df_metrics |-> Unset, relationship_type_analysis |-> Unset]

\* v1: except Exception: st.error(...); self.G = None
failed_v1(a, result) == [app |-> [a EXCEPT !.G = None], result |-> result]

load_data_v1(a, f) ==
    IF ~f.exists THEN failed_v1(a, "NotFound")
    ELSE IF ~f.parsable THEN failed_v1(a, "Malformed")
    \* None['network']: TypeError
    ELSE IF parsed(f) = None THEN failed_v1([a EXCEPT !.step3_data = None], "Malformed")
    ELSE
    LET d  == f.data
        a1 == [a EXCEPT !.step3_data = parsed(f)]
    IN  IF d.network.k = "missing" THEN failed_v1(a1, "Malformed")
        ELSE IF d.network.k = "some" /\ ~d.network.v.valid THEN failed_v1(a1, "Malformed")
        ELSE
        LET a2 == [a1 EXCEPT !.G = IF d.network.k = "some"
                                   THEN Some(node_link_graph(d.network.v)) ELSE None]
        IN  IF d.metrics.k = "missing" THEN failed_v1(a2, "Malformed")
            ELSE
            LET a3 == [a2 EXCEPT !.metrics = IF d.metrics.k = "some" THEN d.metrics ELSE None]
            IN  IF d.df_metrics.k = "missing" THEN failed_v1(a3, "Malformed")
                ELSE IF d.df_metrics.k = "some" /\ ~d.df_metrics.v.valid
                     THEN failed_v1(a3, "Malformed")
                ELSE
                LET a4 == [a3 EXCEPT !.df_metrics = IF d.df_metrics.k = "some"
                                                    THEN Some(d.df_metrics.v.rows) ELSE None]
                IN  [app    |-> [a4 EXCEPT !.relationship_type_analysis = get_rta(d)],
                     result |-> "ok"]

\* v2: __init__
init_v2 ==
    [data_loaded |-> FALSE, step3_data |-> None, G |-> None, metrics |-> None,
     df_metrics |-> None, relationship_type_analysis |-> None]

load_data_v2(a, f, e) ==
    IF ~f.exists THEN [app |-> a, result |-> "NotFound"]
    ELSE IF ~f.parsable THEN [app |-> a, result |-> "Malformed"]
    \* None.get: AttributeError, at line 69 or, without networkx, at line 74
    ELSE IF parsed(f) = None
    THEN [app |-> [a EXCEPT !.step3_data = None], result |-> "Malformed"]
    ELSE
    LET d  == f.data
        a1 == [a EXCEPT !.step3_data = parsed(f)]
    IN  IF e.NETWORKX_AVAILABLE /\ d.network.k = "some" /\ ~d.network.v.valid
        THEN [app |-> a1, result |-> "Malformed"]
        ELSE
        LET a2 == [a1 EXCEPT !.G = IF e.NETWORKX_AVAILABLE /\ d.network.k = "some"
                                   THEN Some(node_link_graph(d.network.v)) ELSE None]
            a3 == [a2 EXCEPT !.metrics =
                       CASE d.metrics.k = "missing" -> Some([jiamu_metrics |-> FALSE])
                         [] d.metrics.k = "falsy"   -> None
                         [] OTHER                   -> d.metrics]
        IN  IF d.df_metrics.k = "some" /\ ~d.df_metrics.v.valid
            THEN [app |-> a3, result |-> "Malformed"]
            ELSE
            LET a4 == [a3 EXCEPT !.df_metrics = IF d.df_metrics.k = "some"
                                                THEN Some(d.df_metrics.v.rows) ELSE None]
            IN  [app    |-> [a4 EXCEPT !.relationship_type_analysis = get_rta(d),
                                       !.data_loaded = TRUE],
                 result |-> "ok"]

\* v3: __init__ (the attribute data is kept in step3_data)
init_v3 ==
    [data_loaded |-> FALSE, step3_data |-> None, G |-> None, metrics |-> Unset,
     df_metrics |-> Unset, relationship_type_analysis |-> Unset]

load_data_v3(a, f, e) ==
    IF ~f.exists THEN [app |-> a, result |-> "NotFound"]
    ELSE IF ~f.parsable THEN [app |-> a, result |-> "Malformed"]
    \* NETWORKX_AVAILABLE and self.data.get('network'): None.get is evaluated,
    \* and raises AttributeError, only when networkx is available
    ELSE IF parsed(f) = None
    THEN IF e.NETWORKX_AVAILABLE
         THEN [app |-> [a EXCEPT !.step3_data = None], result |-> "Malformed"]
         ELSE [app |-> [a EXCEPT !.step3_data = None, !.data_loaded = TRUE], result |-> "ok"]
    ELSE
    LET d  == f.data
        a1 == [a EXCEPT !.step3_data = parsed(f)]
    IN  IF e.NETWORKX_AVAILABLE /\ d.network.k = "some"
        THEN IF ~d.network.v.valid
             THEN [app |-> a1, result |-> "Malformed"]
             ELSE [app    |-> [a1 EXCEPT !.G = Some(node_link_graph(d.network.v)),
                                         !.data_loaded = TRUE],
                   result |-> "ok"]
        ELSE [app |-> [a1 EXCEPT !.data_loaded = TRUE], result |-> "ok"]

----------------------------------------------------------------------------
(* What a view renders.  outcome: "ok" (data rendered), "neutral" (a 'no   *)
(* data' message or nothing), "static" (text that uses no data),           *)
(* "exception" (an exception left the view).  detail: the reason of a      *)
(* neutral outcome or the exception's type.  reads: the attributes of the  *)
(* app the view evaluated.  sorted_asc, sorted_desc: jiamu_related as      *)
(* sort_values returned it.  stats: the figures st.metric was given, each  *)
(* None (not shown), NA (the placeholder "N/A") or Some(value).            *)

NA == [k |-> "na"]

NoStats == [nodes |-> None, edges |-> None, density |-> None, degree |-> None]

Blank(section) ==
    [section |-> section, outcome |-> "none", detail |-> "", reads |-> {},
     neighbors |-> <<>>, pos |-> <<>>, chart |-> <<>>, table |-> <<>>,
     strengths |-> <<>>, sorted_asc |-> None, sorted_desc |-> None,
     types |-> <<>>, type_summary |-> <<>>, stats |-> NoStats, segments |-> <<>>]

Neutral(section, why, rd) ==
    [Blank(section) EXCEPT !.outcome = "neutral", !.detail = why, !.reads = rd]

Raise(section, exc, rd) ==
    [Blank(section) EXCEPT !.outcome = "exception", !.detail = exc, !.reads = rd]

Ok(section, rd) == [Blank(section) EXCEPT !.outcome = "ok", !.reads = rd]

Static(section, rd) == [Blank(section) EXCEPT !.outcome = "static", !.reads = rd]

\* neighbor_data: for each neighbour its name, the weight of its edge with
\* the focal node and its type
neighbor_data(G, nbrs) ==
    [i \in 1..Len(nbrs) |->
        [character |-> nbrs[i], weight |-> G.weight[<<Focal, nbrs[i]>>],
         type |-> get_character_type(nbrs[i])]]

\* v3: neighbor_data, the type given by the characters of the name
neighbor_data_v3(G, nbrs) ==
    [i \in 1..Len(nbrs) |->
        [character |-> nbrs[i], weight |-> G.weight[<<Focal, nbrs[i]>>],
         type |-> simple_type(nbrs[i])]]

\* [(neighbor, G['JiaMu'][neighbor]['weight']) for neighbor in jiamu_neighbors]
neighbor_strengths(G, nbrs) ==
    [i \in 1..Len(nbrs) |-> [character |-> nbrs[i], weight |-> G.weight[<<Focal, nbrs[i]>>]]]

\* a view whose sort_values is done in place on self.df_metrics
held_after_in_place(a, x) ==
    IF x.sorted_desc.k = "some" /\ a.df_metrics.k = "some"
    THEN [a EXCEPT !.df_metrics = x.sorted_desc]
    ELSE a

\* The attributes of the app once a view that rendered x has returned.  No
\* view assigns an attribute of self; the table is filtered into a .copy()
\* and sort_values (inplace=False) returns a new frame; G is only queried
\* (neighbors, degree, subgraph, G[u][v]).
held_after(a, x) == a

----------------------------------------------------------------------------
(* The views of v1 (src/streamlit_page.py) *)

display_network_statistics(a) ==
    IF a.G.k = "none" THEN Neutral("overview", "NoData", {"G"})
    ELSE
    LET G == a.G.v IN
    IF number_of_nodes(G) = 0 THEN Raise("overview", "ZeroDivisionError", {"G"})
    ELSE IF ~has_node(G, Focal) THEN Raise("overview", "NetworkXError", {"G"})
    ELSE
    \* st.metric of node_count, edge_count, network_density, average_degree
    LET shown == [NoStats EXCEPT !.nodes = Some(number_of_nodes(G)),
                                 !.edges = Some(number_of_edges(G)),
                                 !.density = Some(density(G))]
    IN
    IF a.metrics.k # "some"
    THEN [Raise("overview", "TypeError", {"G", "metrics"}) EXCEPT !.stats = shown]
    ELSE IF ~a.metrics.v.jiamu_metrics
    THEN [Raise("overview", "KeyError", {"G", "metrics"}) EXCEPT !.stats = shown]
    ELSE
    LET nbrs == neighbors(G, Focal)
        ns   == neighbor_strengths(G, nbrs)
    IN  [Ok("overview", {"G", "metrics"}) EXCEPT
             !.stats = shown,
             !.neighbors = nbrs,
             !.strengths = SubSeq(sort_reverse(ns, 1..Len(ns)), 1, Min(TopNbrsV1, Len(ns)))]

\* The pie of the four categories: "unavailable" when the mapping is falsy,
\* else values = [r['family_male']['total_weight'], ...] by subscript, a
\* KeyError at the first category the mapping lacks.
create_relationship_type_chart(r) ==
    IF r.k # "some" \/ DOMAIN r.v = {}
    THEN [outcome |-> "unavailable", values |-> <<>>]
    ELSE IF \E i \in 1..Len(TypeOrder) : TypeOrder[i] \notin DOMAIN r.v
    THEN [outcome |-> "KeyError", values |-> <<>>]
    ELSE [outcome |-> "chart",
          values  |-> [i \in 1..Len(TypeOrder) |-> r.v[TypeOrder[i]].total_weight]]

show_network_overview_v1(a) ==
    LET s  == display_network_statistics(a)
        rd == s.reads \cup {"relationship_type_analysis"}
        r  == a.relationship_type_analysis
    IN  IF s.outcome = "exception" THEN {s}
        ELSE IF r.k = "unset" THEN {Raise("overview", "AttributeError", rd)}
        ELSE IF r.k = "some" /\ DOMAIN r.v # {}
             THEN IF create_relationship_type_chart(r).outcome = "chart"
                  THEN {[s EXCEPT !.outcome = "ok", !.detail = "", !.reads = rd]}
                  ELSE {Raise("overview", "KeyError", rd)}
        ELSE {[s EXCEPT !.reads = rd]}

\* the edge loop without the test of the focal node: every edge of the
\* subgraph is drawn
edge_trace_all(es, pos) ==
    [i \in 1..Len(es) |->
        [u |-> es[i][1], v |-> es[i][2], from |-> pos[es[i][1]], to |-> pos[es[i][2]]]]

\* for edge in subgraph.edges(): if 'JiaMu' in edge: the segment from
\* pos[edge[0]] to pos[edge[1]]
edge_trace(es, pos) ==
    LET star == SelectSeq(es, LAMBDA edge : Focal \in {edge[1], edge[2]})
    IN  [i \in 1..Len(star) |->
            [u |-> star[i][1], v |-> star[i][2],
             from |-> pos[star[i][1]], to |-> pos[star[i][2]]]]

create_central_network_plot(a) ==
    IF a.G.k = "none" THEN Neutral("network", "NoData", {"G"})
    ELSE
    LET G == a.G.v IN
    IF ~has_node(G, Focal) THEN Raise("network", "NetworkXError", {"G"})
    ELSE
    LET jiamu_neighbors == neighbors(G, Focal) IN
    IF jiamu_neighbors = <<>> THEN Neutral("network", "Isolated", {"G"})
    ELSE
    \* for node in subgraph.nodes(): weight and char_type of the nodes but JiaMu
    LET central_nodes == <<Focal>> \o jiamu_neighbors
        sub    == subgraph(G, central_nodes)
        pos    == layout(jiamu_neighbors)
        others == SelectSeq(sub.nodes, LAMBDA n : n # Focal)
    IN  [Ok("network", {"G"}) EXCEPT !.neighbors = jiamu_neighbors,
                                     !.pos = pos,
                                     !.types = neighbor_data(G, others),
                                     !.segments = edge_trace(edges(sub), pos)]

show_network_diagram_v1(a) == {create_central_network_plot(a)}

show_relationship_analysis_v1(a, st) ==
    IF a.df_metrics.k = "unset"
    THEN {Raise("relationship", "AttributeError", {"df_metrics"})}
    ELSE IF a.df_metrics.k = "none"
    THEN {Neutral("relationship", "NoData", {"df_metrics"})}
    ELSE
    LET jiamu_related == filter_positive(a.df_metrics.v) IN
    {[Ok("relationship", {"df_metrics"}) EXCEPT
          !.sorted_asc = Some(asc), !.chart = head(asc, ChartV1),
          !.sorted_desc = Some(desc), !.table = head(desc, DetailV1)] :
         asc \in sort_values(jiamu_related, TRUE, st.asc),
         desc \in sort_values(jiamu_related, FALSE, st.desc)}

show_centrality_metrics_v1(a) ==
    IF a.df_metrics.k = "unset"
    THEN {Raise("centrality", "AttributeError", {"df_metrics"})}
    ELSE IF a.df_metrics.k = "none"
    THEN {Neutral("centrality", "NoData", {"df_metrics"})}
    ELSE {[Ok("centrality", {"df_metrics"}) EXCEPT
               !.chart = head(filter_positive(a.df_metrics.v), CentralV1)]}

show_about_v1(a) ==
    IF a.G.k = "some" THEN {Ok("about", {"G"})} ELSE {Static("about", {"G"})}

----------------------------------------------------------------------------
(* The views of v2 (src/streamlit_page_new.py) *)

\* show_network_overview without its test of data_loaded
show_network_overview_v2_unguarded(a) == {Ok("overview", {"data_loaded", "G", "metrics"})}

\* the four st.metric of the overview of v2 and v3: if self.G: ... else "N/A"
graph_metrics(a) ==
    IF a.G.k = "some" /\ truthy(a.G.v)
    THEN [nodes   |-> Some(number_of_nodes(a.G.v)),
          edges   |-> Some(number_of_edges(a.G.v)),
          density |-> Some(density(a.G.v)),
          degree  |-> IF has_node(a.G.v, Focal) THEN Some(degree(a.G.v, Focal)) ELSE NA]
    ELSE [nodes |-> NA, edges |-> NA, density |-> NA, degree |-> NA]

show_network_overview_v2(a) ==
    IF ~a.data_loaded THEN {Neutral("overview", "NoData", {"data_loaded"})}
    ELSE {[Ok("overview", {"data_loaded", "G", "metrics"}) EXCEPT !.stats = graph_metrics(a)]}

show_relationship_analysis_v2(a, st) ==
    IF ~a.data_loaded THEN {Neutral("relationship", "NoData", {"data_loaded"})}
    ELSE IF a.df_metrics.k = "none"
    THEN {Neutral("relationship", "NoData", {"data_loaded", "df_metrics"})}
    ELSE
    LET jiamu_related == filter_positive(a.df_metrics.v) IN
    {[Ok("relationship", {"data_loaded", "df_metrics"}) EXCEPT
          !.sorted_desc = Some(desc),
          !.chart = head(desc, ChartV2), !.table = head(desc, ChartV2)] :
         desc \in sort_values(jiamu_related, FALSE, st.desc)}

show_network_visualization_v2(a, e) ==
    IF ~a.data_loaded THEN {Neutral("network", "NoData", {"data_loaded"})}
    ELSE IF ~e.NETWORKX_AVAILABLE THEN {Neutral("network", "NoData", {"data_loaded"})}
    ELSE IF a.G.k = "none" THEN {Neutral("network", "NoData", {"data_loaded", "G"})}
    ELSE
    LET G == a.G.v IN
    IF ~(truthy(G) /\ has_node(G, Focal))
    THEN {Neutral("network", "NoFocalNode", {"data_loaded", "G"})}
    ELSE
    LET nbrs == neighbors(G, Focal) IN
    \* pd.DataFrame([]) has no column 'type': groupby('type') raises KeyError
    IF nbrs = <<>> THEN {Raise("network", "KeyError", {"data_loaded", "G"})}
    ELSE
    LET df_neighbors == neighbor_data(G, nbrs)
    IN  {[Ok("network", {"data_loaded", "G"}) EXCEPT
              !.neighbors = nbrs, !.types = df_neighbors,
              !.type_summary = groupby_sum(df_neighbors)]}

show_centrality_analysis_v2(a) ==
    IF ~a.data_loaded THEN {Neutral("centrality", "NoData", {"data_loaded"})}
    ELSE IF a.df_metrics.k = "none"
    THEN {Neutral("centrality", "NoData", {"data_loaded", "df_metrics"})}
    ELSE {[Ok("centrality", {"data_loaded", "df_metrics"}) EXCEPT
               !.chart = head(filter_positive(a.df_metrics.v), CentralV2)]}

show_about_v2(a) == {Static("about", {})}

show_homepage_v2(a) == {Static("home", {"data_loaded"})}

----------------------------------------------------------------------------
(* The views of v3 (src/Project/stream_page_new1.py) *)

show_network_stats_v3(a) ==
    IF ~a.data_loaded THEN {Neutral("overview", "NoData", {"data_loaded"})}
    ELSE {[Ok("overview", {"data_loaded", "G"}) EXCEPT !.stats = graph_metrics(a)]}

show_relationship_analysis_v3(a, e, st) ==
    IF ~a.data_loaded \/ ~e.PLOTLY_AVAILABLE
    THEN {Neutral("relationship", "NoData", {"data_loaded"})}
    \* self.data.get('df_metrics') on None
    ELSE IF a.step3_data = None
    THEN {Raise("relationship", "AttributeError", {"data_loaded", "data"})}
    ELSE
    LET d == a.step3_data.v.df_metrics IN
    IF d.k # "some" THEN {Neutral("relationship", "NoData", {"data_loaded", "data"})}
    \* pd.DataFrame(self.data['df_metrics']) is built in the view
    ELSE IF ~d.v.valid THEN {Raise("relationship", "ValueError", {"data_loaded", "data"})}
    ELSE
    LET jiamu_related == filter_positive(d.v.rows) IN
    {[Ok("relationship", {"data_loaded", "data"}) EXCEPT
          !.sorted_asc = Some(asc), !.chart = head(asc, ChartV3)] :
         asc \in sort_values(jiamu_related, TRUE, st.asc)}

show_simple_network_viz_v3(a, e) ==
    IF ~a.data_loaded \/ ~e.PLOTLY_AVAILABLE
    THEN {Neutral("network", "NoData", {"data_loaded"})}
    ELSE IF a.G.k = "none" THEN {Neutral("network", "NoData", {"data_loaded", "G"})}
    ELSE
    LET G == a.G.v IN
    IF ~has_node(G, Focal) THEN {Neutral("network", "NoFocalNode", {"data_loaded", "G"})}
    ELSE
    LET nbrs == neighbors(G, Focal) IN
    IF nbrs = <<>> THEN {Neutral("network", "Isolated", {"data_loaded", "G"})}
    ELSE
    LET df_neighbors == neighbor_data_v3(G, nbrs)
    IN  {[Ok("network", {"data_loaded", "G"}) EXCEPT
              !.neighbors = nbrs, !.types = df_neighbors,
              !.type_summary = groupby_sum(df_neighbors)]}

show_about_v3(a) == {Static("about", {})}

show_homepage_v3(a) == {Static("home", {"data_loaded"})}

----------------------------------------------------------------------------
(* The artifacts the program is run on *)

A == "JiaBaoyu"
B == "LinDaiyu"

Link(u, v, w) == [source |-> u, target |-> v, weight |-> w]

\* the scenario of the specification: F-A weight 3, F-B weight 5
DefaultNet ==
    [nodes |-> <<Focal, A, B>>, links |-> <<Link(Focal, A, 3), Link(Focal, B, 5)>>,
     valid |-> TRUE]

\* an encoding nx.node_link_graph rejects (no list of links, a link without ends)
BadNet == [nodes |-> <<>>, links |-> <<>>, valid |-> FALSE]

Row(i, c, w) == [idx |-> i, character |-> c, weight_to_jiamu |-> w]

DefaultTable == [rows |-> <<Row(0, Focal, 0), Row(1, A, 3), Row(2, B, 5)>>, valid |-> TRUE]

\* a value pd.DataFrame rejects (for one, a dict of scalars)
BadTable == [rows |-> <<>>, valid |-> FALSE]

DefaultMetrics == [jiamu_metrics |-> TRUE]

Total(w, n) == [total_weight |-> w, character_count |-> n]

DefaultRta ==
    [family_male |-> Total(3, 1), family_female |-> Total(0, 0),
     servants |-> Total(0, 0), guests |-> Total(5, 1)]

DefaultData ==
    [network |-> Some(DefaultNet), metrics |-> Some(DefaultMetrics),
     df_metrics |-> Some(DefaultTable), relationship_type_analysis |-> Some(DefaultRta)]

Artifact(d) == [exists |-> TRUE, parsable |-> TRUE, data |-> d]

NoFile == [exists |-> FALSE, parsable |-> FALSE, data |-> DefaultData]

Garbage == [exists |-> TRUE, parsable |-> FALSE, data |-> DefaultData]

\* an artifact whose text is the JSON value null
NullFile == [exists |-> TRUE, parsable |-> TRUE, data |-> None]

\* every top-level field missing, falsy, well-formed or ill-formed
LoadFamily ==
    {NoFile, Garbage, NullFile} \cup
    {Artifact([network |-> n, metrics |-> m, df_metrics |-> d,
               relationship_type_analysis |-> r]) :
        n \in {Missing, Falsy, Some(DefaultNet), Some(BadNet)},
        m \in {Missing, Falsy, Some(DefaultMetrics), Some([jiamu_metrics |-> FALSE])},
        d \in {Missing, Falsy, Some(DefaultTable), Some(BadTable)},
        r \in {Missing, Falsy, Some(DefaultRta)}}

\* the aggregates of the categories in keys only, with an entry 'other' or not
PartialRta(keys, other) ==
    [k \in keys \cup (IF other THEN {"other"} ELSE {}) |->
        IF k = "other" THEN Total(1, 1) ELSE DefaultRta[k]]

\* type aggregates that leave out the categories without members, or carry
\* an entry 'other', or both
RtaFamily ==
    {Artifact([DefaultData EXCEPT !.relationship_type_analysis = Some(PartialRta(ks, o))]) :
        ks \in {{"family_male", "guests"}, Range(TypeOrder)}, o \in BOOLEAN}

SeqsUpTo(S, n) == UNION {[1..k -> S] : k \in 0..n}

\* The links of the graph family: the focal node with itself, with A in both
\* orientations and with two weights, with B, and A with B.
Links ==
    {Link(Focal, Focal, 1), Link(Focal, A, 1), Link(Focal, A, 2), Link(A, Focal, 2),
     Link(B, Focal, 1), Link(A, B, 1)}

NodeLists == {<<>>, <<Focal>>, <<B, A, Focal>>}

\* the lists of up to MaxLinks links, no link of Links twice in a list
LinkLists ==
    {ls \in SeqsUpTo(Links, MaxLinks) : \A i, j \in 1..Len(ls) : ls[i] = ls[j] => i = j}

\* node-link encodings: a list of nodes, then up to MaxLinks links in any
\* order, with self-loops and with pairs listed again, in either
\* orientation and with another weight
GraphFamily ==
    {Artifact([DefaultData EXCEPT !.network = Some([nodes |-> ns, links |-> ls, valid |-> TRUE])]) :
        ns \in NodeLists, ls \in LinkLists}

Cast ==
    <<"JiaZheng", "WangFuren", "HuaXiren", "LinDaiyu", "JiaShe", "XingFuren", "Yuanyang",
      "XueBaochai", "JiaLian", "WangXifeng", "Qingwen", "ShiXiangyun", "JiaBaoyu",
      "JiaTanchun", "Sheyue", "Miaoyu", "JiaRong", "JiaYingchun", "Qiuwen", "LiWan",
      "JiaQiang", "JiaXichun", "Bihen", "QinKeqing", "JiaLan", "JiaYuanchun", "Pinger",
      "Xiangling", "JiaYun", "Zijuan", "LiuLaolao", "JiaQin", "JiaHuan", "JiaRui">>

FreeWeights == 0..1

\* the j-th of pad further rows: the weights above the free ones, each once,
\* in the order lowest, highest, second lowest, second highest, ...
PadWeight(j, pad) ==
    LET top == CHOOSE m \in FreeWeights : \A x \in FreeWeights : x <= m
    IN  top + (IF j % 2 = 1 THEN (j + 1) \div 2 ELSE pad + 1 - (j \div 2))

\* Tables: up to MaxFree rows of any weights (the first and the third are
\* rows of the same character), then up to MaxPad rows of distinct weights.
TableRows(free, pad) ==
    [i \in 1..(Len(free) + pad) |->
        IF i <= Len(free)
        THEN Row(i - 1, Cast[1 + (i % 2)], free[i])
        ELSE Row(i - 1, Cast[2 + (i - Len(free))], PadWeight(i - Len(free), pad))]

\* the numbers of further rows: none, one short of each cut, and MaxPad
PadSizes == {0, MaxPad} \cup {k - 1 : k \in {CentralV2, ChartV2, ChartV1, DetailV1}}

TableFamily ==
    {Artifact([DefaultData EXCEPT !.df_metrics =
                   IF Len(free) + pad = 0 THEN Falsy
                   ELSE Some([rows |-> TableRows(free, pad), valid |-> TRUE])]) :
        free \in SeqsUpTo(FreeWeights, MaxFree), pad \in PadSizes}

Files == LoadFamily \cup RtaFamily \cup GraphFamily \cup TableFamily

\* v1 imports networkx and plotly unconditionally, v2 plotly
Envs(v, f) ==
    {[NETWORKX_AVAILABLE |-> n, PLOTLY_AVAILABLE |-> p] :
        n \in IF v # "v1" /\ f \in LoadFamily THEN BOOLEAN ELSE {TRUE},
        p \in IF v = "v3" /\ f \in LoadFamily THEN BOOLEAN ELSE {TRUE}}

----------------------------------------------------------------------------
(* The state machine *)

\* the sections whose first rendering is kept for comparison
Tracked == {"network", "relationship"}

Init ==
    /\ variant \in {"v1", "v2", "v3"}
    /\ file \in Files
    /\ env \in Envs(variant, file)
    /\ pc = "start"
    /\ app = NoAttributes
    /\ sorting = [asc |-> None, desc |-> None]
    /\ lastLoad = "none"
    /\ loads = 0
    /\ view = Blank("none")
    /\ seen = [s \in Tracked |-> Blank("none")]
    /\ again = FALSE

count(n, result) == IF result = "ok" THEN Min(n + 1, MaxRuns) ELSE n

\* main(), up to the construction of the app
Construct ==
    /\ pc = "start"
    /\ IF variant = "v1"
       THEN IF ~file.exists
            THEN /\ pc' = "exited"
                 /\ lastLoad' = "NotFound"
                 /\ UNCHANGED <<app, loads>>
            ELSE LET r == load_data_v1(NoAttributes, file)
                 IN  /\ pc' = "ready"
                     /\ app' = r.app
                     /\ lastLoad' = r.result
                     /\ loads' = count(loads, r.result)
       ELSE /\ pc' = "ready"
            /\ app' = (IF variant = "v2" THEN init_v2 ELSE init_v3)
            /\ UNCHANGED <<lastLoad, loads>>
    /\ UNCHANGED <<variant, env, file, sorting, view, seen, again>>

\* run_load without the test of data_loaded
run_load_always ==
    IF variant = "v1" THEN [app |-> app, result |-> "skip"]
    ELSE IF variant = "v2" THEN load_data_v2(app, file, env)
    ELSE load_data_v3(app, file, env)

\* run(): if not self.data_loaded: self.load_data()    (v2, v3)
run_load ==
    IF variant = "v1" \/ app.data_loaded THEN [app |-> app, result |-> "skip"]
    ELSE IF variant = "v2" THEN load_data_v2(app, file, env)
    ELSE load_data_v3(app, file, env)

\* run(): the load, then the view views(a) of the selected section
Run(r, views) ==
    /\ pc = "ready"
    /\ lastLoad' = (IF r.result = "skip" THEN lastLoad ELSE r.result)
    /\ loads' = count(loads, r.result)
    /\ \E x \in views :
          /\ app' = held_after(r.app, x)
          /\ view' = x
          /\ seen' = IF x.section \in Tracked /\ seen[x.section].section = "none"
                     THEN [seen EXCEPT ![x.section] = x] ELSE seen
          /\ again' = (x.section \in Tracked /\ seen[x.section].section # "none")
          /\ sorting' = [asc  |-> IF x.sorted_asc.k = "some" THEN x.sorted_asc ELSE sorting.asc,
                         desc |-> IF x.sorted_desc.k = "some" THEN x.sorted_desc ELSE sorting.desc]
    /\ UNCHANGED <<variant, env, file, pc>>

RunOverview ==
    LET r == run_load IN
    Run(r, CASE variant = "v1" -> show_network_overview_v1(r.app)
             [] variant = "v2" -> show_network_overview_v2(r.app)
             [] variant = "v3" -> show_network_stats_v3(r.app))

RunNetwork ==
    LET r == run_load IN
    Run(r, CASE variant = "v1" -> show_network_diagram_v1(r.app)
             [] variant = "v2" -> show_network_visualization_v2(r.app, env)
             [] variant = "v3" -> show_simple_network_viz_v3(r.app, env))

RunRelationship ==
    LET r == run_load IN
    Run(r, CASE variant = "v1" -> show_relationship_analysis_v1(r.app, sorting)
             [] variant = "v2" -> show_relationship_analysis_v2(r.app, sorting)
             [] variant = "v3" -> show_relationship_analysis_v3(r.app, env, sorting))

RunCentrality ==
    /\ variant \in {"v1", "v2"}
    /\ LET r == run_load IN
       Run(r, IF variant = "v1" THEN show_centrality_metrics_v1(r.app)
              ELSE show_centrality_analysis_v2(r.app))

RunAbout ==
    LET r == run_load IN
    Run(r, CASE variant = "v1" -> show_about_v1(r.app)
             [] variant = "v2" -> show_about_v2(r.app)
             [] variant = "v3" -> show_about_v3(r.app))

RunHome ==
    /\ variant \in {"v2", "v3"}
    /\ LET r == run_load IN
       Run(r, IF variant = "v2" THEN show_homepage_v2(r.app) ELSE show_homepage_v3(r.app))

Next ==
    \/ Construct
    \/ RunOverview
    \/ RunNetwork
    \/ RunRelationship
    \/ RunCentrality
    \/ RunAbout
    \/ RunHome

Spec == Init /\ [][Next]_vars

----------------------------------------------------------------------------
(* Properties *)

DataSections == {"overview", "network", "relationship", "centrality"}

DataAttributes == {"G", "metrics", "df_metrics", "relationship_type_analysis", "data"}

Rendered == view.section # "none"

\* the value of the attribute a view read under the name x
Attribute(x) == IF x = "data" THEN app.step3_data ELSE app[x]

\* C1: when the artifact does not exist, loading ends as NotFound (v1: main
\* returns before an app exists; v2, v3: load_data returns False), no load
\* succeeds, data_loaded stays False, no graph is held, and every view run
\* afterwards ends neutral (the pages without data: static) without reading
\* the graph, the metrics or the table, and without an exception.
C1_NotFoundIsNeutral ==
    ~file.exists =>
        /\ lastLoad \in {"none", "NotFound"}
        /\ loads = 0
        /\ ~app.data_loaded
        /\ app.G.k # "some"
        /\ variant = "v1" => pc \in {"start", "exited"} /\ ~Rendered
        /\ Rendered =>
              /\ lastLoad = "NotFound"
              /\ view.outcome \in {"neutral", "static"}
              /\ view.section \in DataSections =>
                     view.outcome = "neutral" /\ view.detail = "NoData"
              /\ view.reads \cap DataAttributes = {}
              /\ view.pos = <<>> /\ view.chart = <<>> /\ view.table = <<>>

C1_Witness ==
    /\ ~file.exists
    /\ variant = "v2"
    /\ view.section = "relationship"
    /\ view.outcome = "neutral"
    /\ lastLoad = "NotFound"

\* C2: after a load that failed as Malformed, every view ends neutral (the
\* pages without data: static), reads no attribute the failed load left
\* unset, and raises no exception.
C2_MalformedIsNeutral ==
    (lastLoad = "Malformed" /\ Rendered) =>
        /\ view.outcome \in {"neutral", "static"}
        /\ \A x \in view.reads : x # "data_loaded" => Attribute(x).k # "unset"

WellFormed(fld) == fld.k = "some" => fld.v.valid

LoadAttempted == pc = "ready" /\ (variant = "v1" \/ Rendered)

\* C3: for a parsable artifact whose top-level fields are each missing,
\* empty or well-formed, load_data succeeds, every field that is present is
\* loaded, and every field that is missing is recorded as unavailable.
C3_MissingFieldsDegrade ==
    (/\ LoadAttempted
     /\ file.exists /\ file.parsable /\ parsed(file) # None
     /\ WellFormed(file.data.network) /\ WellFormed(file.data.df_metrics)) =>
        /\ lastLoad = "ok"
        /\ (file.data.network.k = "some" /\ env.NETWORKX_AVAILABLE) => app.G.k = "some"
        /\ file.data.network.k # "some" => app.G.k = "none"
        /\ variant \in {"v1", "v2"} =>
              /\ app.metrics.k \in {"none", "some"}
              /\ file.data.metrics.k = "some" => app.metrics = file.data.metrics
              /\ app.df_metrics.k = file.data.df_metrics.k \/ app.df_metrics.k = "none"
              /\ file.data.df_metrics.k = "some" =>
                     app.df_metrics = Some(file.data.df_metrics.v.rows)
              /\ app.relationship_type_analysis.k \in {"none", "some"}

\* C4: on a loaded graph without the focal node, the focal-centred network
\* view ends neutral, with no positions and no neighbours, and raises no
\* exception.
C4_NoFocalNodeIsNeutral ==
    (/\ view.section = "network"
     /\ app.G.k = "some"
     /\ ~has_node(app.G.v, Focal)) =>
        /\ view.outcome = "neutral"
        /\ view.detail \in {"NoFocalNode", "NoData"}
        /\ view.pos = <<>> /\ view.neighbors = <<>>

\* C5: on a loaded graph whose focal node has no neighbour, the focal-centred
\* network view ends neutral before any per-neighbour computation, and
\* raises no exception.
C5_IsolatedIsNeutral ==
    (/\ view.section = "network"
     /\ app.G.k = "some"
     /\ has_node(app.G.v, Focal)
     /\ neighbors(app.G.v, Focal) = <<>>) =>
        /\ view.outcome = "neutral"
        /\ view.detail \in {"Isolated", "NoData"}
        /\ view.pos = <<>>

Laid == variant = "v1" /\ view.section = "network" /\ view.outcome = "ok"

\* C6: in a successful layout of n >= 1 neighbours, the neighbour of index i
\* (from 0) is on the circle of radius 2 at angle i * (2 pi / n): distinct
\* indices have distinct angles, consecutive ones differ by 2 pi / n, index 0
\* is at (2, 0) and, when n = 2, index 1 is at (-2, 0).
C6_AngularSlots ==
    Laid =>
        LET nbrs == view.neighbors
            n    == Len(nbrs)
            at(i) == view.pos[nbrs[i + 1]]
        IN  /\ n >= 1
            /\ 360 % n = 0
            /\ \A i \in 0..(n - 1) :
                  /\ at(i).radius = 2
                  /\ at(i).angle * n = i * 360
            /\ \A i, j \in 0..(n - 1) : i # j => at(i).angle # at(j).angle
            /\ \A i \in 0..(n - 2) : (at(i + 1).angle - at(i).angle) * n = 360
            /\ at(0).radius * cos(at(0).angle) = 2 /\ at(0).radius * sin(at(0).angle) = 0
            /\ n = 2 => /\ at(1).radius * cos(at(1).angle) = -2
                        /\ at(1).radius * sin(at(1).angle) = 0

C6_Witness ==
    /\ Laid
    /\ Len(view.neighbors) = 3
    /\ view.pos[view.neighbors[3]].angle = 240

\* C7: in a successful layout the positioned nodes are the focal node and its
\* neighbours, the focal node is at the origin and every other node is on
\* the circle.
C7_FocalAtOrigin ==
    Laid =>
        /\ DOMAIN view.pos = {Focal} \cup Range(view.neighbors)
        /\ view.pos[Focal] = Origin
        /\ \A x \in DOMAIN view.pos : x # Focal => view.pos[x].radius = radius

\* rows ranked from the table df, cut at k
TopK(ranked, df, k) ==
    LET positive == {j \in 1..Len(df) : df[j].weight_to_jiamu > 0}
        m        == Cardinality(positive)
        shown    == {ranked[i].idx : i \in 1..Len(ranked)}
    IN  /\ Len(ranked) = Min(k, m)
        /\ \A i \in 1..Len(ranked) :
              /\ ranked[i].weight_to_jiamu > 0
              /\ \E j \in positive : df[j] = ranked[i]
        /\ \A i, j \in 1..Len(ranked) :
              i < j => /\ ranked[i].weight_to_jiamu >= ranked[j].weight_to_jiamu
                       /\ ranked[i].idx # ranked[j].idx
        /\ \A j \in positive :
              df[j].idx \notin shown =>
                  \A i \in 1..Len(ranked) : df[j].weight_to_jiamu <= ranked[i].weight_to_jiamu
        /\ m <= k => Range(ranked) = {df[j] : j \in positive}

Ranked == view.section = "relationship" /\ view.outcome = "ok"

\* C8: the descending ranked view (k = 20 in v1's detail table, k = 10 in v2)
\* holds min(k, m) rows of the table, m the number of rows of weight > 0:
\* all of weight > 0, each row once, weights non-increasing, no omitted row
\* of positive weight heavier than a row shown, and all the rows of positive
\* weight when m <= k.
C8_DescendingTopK ==
    (Ranked /\ variant \in {"v1", "v2"}) =>
        TopK(view.table, app.df_metrics.v, IF variant = "v1" THEN 20 ELSE 10)

C8_Witness ==
    /\ Ranked
    /\ variant = "v1"
    /\ Len(view.table) = 20
    /\ Len(filter_positive(app.df_metrics.v)) = 22
    /\ \E i \in 1..Len(app.df_metrics.v) : app.df_metrics.v[i].weight_to_jiamu = 0

\* rows of equal weight are in the order of their index labels, the input order
StableRows(rows) ==
    \A i, j \in 1..Len(rows) :
        (i < j /\ rows[i].weight_to_jiamu = rows[j].weight_to_jiamu) =>
            rows[i].idx < rows[j].idx

Place(x, s) == CHOOSE i \in 1..Len(s) : s[i] = x

\* C9: every ranking by weight is stable: rows of equal weight keep their
\* input order, in each sort_values of the three variants and in the sort
\* of the neighbour strengths.
C9_StableRanking ==
    /\ view.sorted_asc.k = "some" => StableRows(view.sorted_asc.v)
    /\ view.sorted_desc.k = "some" => StableRows(view.sorted_desc.v)
    /\ StableRows(view.chart) /\ StableRows(view.table)
    /\ \A i, j \in 1..Len(view.strengths) :
          (i < j /\ view.strengths[i].weight = view.strengths[j].weight) =>
              Place(view.strengths[i].character, view.neighbors)
                  < Place(view.strengths[j].character, view.neighbors)

\* the table a ranking chart is drawn from
ChartSource == IF variant = "v3" THEN app.step3_data.v.df_metrics.v.rows ELSE app.df_metrics.v

\* C10: the ranking chart of v1 ('top 15') and of v3 ('top 10') holds the
\* rows of greatest weight: no row of positive weight left out of the chart
\* is heavier than a row shown in it.
C10_ChartHoldsGreatest ==
    (Ranked /\ variant \in {"v1", "v3"}) =>
        LET df    == ChartSource
            shown == {view.chart[i].idx : i \in 1..Len(view.chart)}
        IN  \A j \in 1..Len(df) :
                (df[j].weight_to_jiamu > 0 /\ df[j].idx \notin shown) =>
                    \A i \in 1..Len(view.chart) :
                        df[j].weight_to_jiamu <= view.chart[i].weight_to_jiamu

Aggregated == variant \in {"v2", "v3"} /\ view.section = "network" /\ view.outcome = "ok"

\* the sum of f over the set S
RECURSIVE SumOver(_, _)
SumOver(f, S) ==
    IF S = {} THEN 0
    ELSE LET x == CHOOSE x \in S : TRUE IN f[x] + SumOver(f, S \ {x})

\* C11: the aggregation of the focal node's neighbours by category conserves
\* weight: each neighbour is counted once, with the weight of its edge with
\* the focal node, in one category; the totals of the categories add up to
\* the sum of the neighbours' weights; a category is in the result exactly
\* when a neighbour was classified into it.
C11_AggregationConservesWeight ==
    Aggregated =>
        LET G    == app.G.v
            nbrs == neighbors(G, Focal)
            w    == [i \in 1..Len(nbrs) |-> G.weight[<<Focal, nbrs[i]>>]]
            ts   == view.type_summary
        IN  /\ Len(nbrs) >= 1
            /\ Len(view.types) = Len(nbrs)
            /\ \A i \in 1..Len(nbrs) :
                  view.types[i].character = nbrs[i] /\ view.types[i].weight = w[i]
            /\ DOMAIN ts = {view.types[i].type : i \in 1..Len(nbrs)}
            /\ \A t \in DOMAIN ts :
                  ts[t] = SumOver(w, {i \in 1..Len(nbrs) : view.types[i].type = t})
            /\ SumOver(ts, DOMAIN ts) = SumOver(w, 1..Len(nbrs))

C11_Witness ==
    /\ Aggregated
    /\ Cardinality(DOMAIN view.type_summary) = 2
    /\ Len(view.types) = 3
    /\ \E t \in DOMAIN view.type_summary : view.type_summary[t] = 3

Labels == Range(TypeOrder) \cup {"other"}

\* C12: every category attached to a neighbour and every key of the
\* aggregation is one of family_male, family_female, servants, guests,
\* other, and is the one the membership lists give the neighbour.
C12_ClosedLabelSet ==
    /\ \A i \in 1..Len(view.types) :
          /\ view.types[i].type \in Labels
          /\ view.types[i].type = get_character_type(view.types[i].character)
    /\ DOMAIN view.type_summary \subseteq Labels

\* the label of the first membership list that holds c, written out
ListLabel(c) ==
    IF c \in character_types.family_male THEN "family_male"
    ELSE IF c \in character_types.family_female THEN "family_female"
    ELSE IF c \in character_types.servants THEN "servants"
    ELSE IF c \in character_types.guests THEN "guests"
    ELSE "other"

\* every identifier of the cast, the focal node and a name of no list
ListsDecide ==
    \A c \in Range(Cast) \cup {Focal, "unknown"} :
        /\ get_character_type(c) \in Labels
        /\ get_character_type(c) = ListLabel(c)
        /\ \A t \in Range(TypeOrder) :
               c \in character_types[t] => get_character_type(c) = t
        /\ (\A t \in Range(TypeOrder) : c \notin character_types[t]) =>
               get_character_type(c) = "other"

Classified == variant \in {"v1", "v2"} /\ view.section = "network" /\ view.outcome = "ok"

\* C13: get_character_type gives every identifier, of the lists or not, in
\* the graph or not, one label: the label of the first of the lists
\* family_male, family_female, servants, guests that holds it, and other
\* when none does; the label a view attaches to a neighbour is this one.
C13_ClassifierTotal ==
    /\ ListsDecide
    /\ Classified =>
          \A i \in 1..Len(view.types) :
              view.types[i].type = ListLabel(view.types[i].character)

C13_Witness ==
    /\ variant = "v2" /\ view.section = "network" /\ view.outcome = "ok"
    /\ \E i, j, k \in 1..Len(view.types) :
          /\ view.types[i].type = "other"
          /\ view.types[j].type = "family_male"
          /\ view.types[k].type = "guests"

\* C14: in every graph load_data reconstructs, edges and weights are
\* symmetric: an edge a-b exists exactly when b-a exists, b is a neighbour
\* of a exactly when a is one of b, and the weight found as G[a][b] is the
\* weight found as G[b][a].
C14_WeightSymmetry ==
    app.G.k = "some" =>
        LET G == app.G.v IN
        \A a, b \in Range(G.nodes) :
            /\ has_edge(G, a, b) <=> has_edge(G, b, a)
            /\ InSeq(b, neighbors(G, a)) <=> InSeq(a, neighbors(G, b))
            /\ InSeq(b, neighbors(G, a)) <=> has_edge(G, a, b)
            /\ has_edge(G, a, b) => G.weight[<<a, b>>] = G.weight[<<b, a>>]

C14_Witness ==
    /\ app.G.k = "some"
    /\ file.data.network.k = "some"
    /\ LET ls == file.data.network.v.links
       IN  \E i, j \in 1..Len(ls) :
               /\ i < j
               /\ ls[i] = Link(Focal, A, 1)
               /\ ls[j] = Link(A, Focal, 2)
               /\ \A k \in (j + 1)..Len(ls) : {ls[k].source, ls[k].target} # {Focal, A}
    /\ app.G.v.weight[<<Focal, A>>] = 2
    /\ app.G.v.weight[<<A, Focal>>] = 2

Overview == view.section = "overview" /\ lastLoad = "ok"

\* C15: for a reconstructed graph of N nodes and E edges the overview reports
\* the density 2E / (N(N-1)), which lies in [0, 1]; it reports the number 0
\* when N <= 1.
C15_DensityInUnitInterval ==
    (Overview /\ app.G.k = "some") =>
        LET N == number_of_nodes(app.G.v)
            E == number_of_edges(app.G.v)
            d == view.stats.density
        IN  /\ d.k = "some"
            /\ d.v.den > 0
            /\ IF N <= 1 THEN d.v.num = 0
               ELSE d.v.num * N * (N - 1) = 2 * E * d.v.den
            /\ 0 <= 2 * E /\ 2 * E <= N * (N - 1)
            /\ 0 <= d.v.num /\ d.v.num <= d.v.den

\* C16: the overview reports the focal node's degree: the placeholder when
\* the graph is absent or lacks the focal node, the degree otherwise; on
\* every loaded graph it ends without looking up an absent node and without
\* dividing by a node count of zero.
C16_FocalDegreeOrUnavailable ==
    Overview =>
        /\ view.detail \notin {"ZeroDivisionError", "NetworkXError"}
        /\ IF app.G.k = "some" /\ has_node(app.G.v, Focal)
           THEN view.stats.degree = Some(degree(app.G.v, Focal))
           ELSE view.stats.degree = NA \/ view.outcome = "neutral"

\* C17: after a successful load the overview gives the node count and the
\* edge count as integers: those of the reconstructed graph (0 and 0 for a
\* graph of no node), and 0 when the graph is absent.
C17_CountsAreIntegers ==
    Overview =>
        /\ view.stats.nodes =
               Some(IF app.G.k = "some" THEN number_of_nodes(app.G.v) ELSE 0)
        /\ view.stats.edges =
               Some(IF app.G.k = "some" THEN number_of_edges(app.G.v) ELSE 0)

\* the attributes load_data gives the app for the artifact, the graph set
\* aside
Loaded(d) ==
    CASE variant = "v1" ->
           /\ app.step3_data = Some(d)
           /\ app.metrics = (IF d.metrics.k = "some" THEN d.metrics ELSE None)
           /\ app.df_metrics = (IF d.df_metrics.k = "some" THEN Some(d.df_metrics.v.rows) ELSE None)
           /\ app.relationship_type_analysis = get_rta(d)
      [] variant = "v2" ->
           /\ app.step3_data = Some(d)
           /\ d.metrics.k = "some" => app.metrics = d.metrics
           /\ app.df_metrics = (IF d.df_metrics.k = "some" THEN Some(d.df_metrics.v.rows) ELSE None)
           /\ app.relationship_type_analysis = get_rta(d)
      [] variant = "v3" -> app.step3_data = (IF d = None THEN None ELSE Some(d))

\* C18: once load_data has succeeded, whatever views have run and in
\* whatever order, the app holds what was loaded: the graph of the
\* encoding (nodes, edges, weights), the metrics record, the table in its
\* row order, and the type aggregates.
C18_ViewsDoNotMutate ==
    lastLoad = "ok" =>
        /\ Loaded(file.data)
        /\ (parsed(file) # None /\ file.data.network.k = "some" /\ env.NETWORKX_AVAILABLE) =>
               app.G = Some(node_link_graph(file.data.network.v))
        /\ ~(parsed(file) # None /\ file.data.network.k = "some" /\ env.NETWORKX_AVAILABLE) =>
               app.G = None

C18_Witness ==
    /\ variant = "v1" /\ lastLoad = "ok"
    /\ view.section = "network" /\ view.outcome = "ok" /\ Len(view.neighbors) = 2
    /\ seen.relationship.outcome = "ok"
    /\ seen.relationship.sorted_desc.v # filter_positive(app.df_metrics.v)
    /\ seen.relationship.sorted_asc.v # seen.relationship.sorted_desc.v

----------------------------------------------------------------------------
(* C21: for every non-empty mapping of type aggregates held after the load, *)
(* one that leaves out some of the four categories or carries an entry     *)
(* 'other' included, the overview of streamlit_page.py that reaches        *)
(* create_relationship_type_chart ends with the chart or with the neutral  *)
(* "unavailable" outcome, never with an exception for a missing category.  *)

TypeChartReached ==
    /\ variant = "v1"
    /\ view.section = "overview"
    /\ "relationship_type_analysis" \in view.reads
    /\ app.relationship_type_analysis.k = "some"
    /\ DOMAIN app.relationship_type_analysis.v # {}

C21_TypeChartNeverFails ==
    TypeChartReached => view.outcome \in {"ok", "neutral"}

\* the case of the claim that does hold: the four categories and 'other'
C21_ExtraOtherIsCharted ==
    /\ TypeChartReached
    /\ "other" \in DOMAIN app.relationship_type_analysis.v
    /\ view.outcome = "ok"

----------------------------------------------------------------------------
(* C22: in a successful layout of create_central_network_plot the segments *)
(* drawn are the star around the focal node: for every neighbour n of the  *)
(* focal node exactly one segment joins the focal node and n, no segment   *)
(* joins two nodes other than the focal node, even when the graph has an   *)
(* edge between two neighbours, and both ends of every segment are         *)
(* positioned nodes, the segment running between their positions.          *)

Ends(seg) == {seg.u, seg.v}

C22_StarEdgeSet ==
    Laid =>
        LET segs == view.segments IN
        /\ \A n \in Range(view.neighbors) :
              Cardinality({i \in DOMAIN segs : Ends(segs[i]) = {Focal, n}}) = 1
        /\ \A i \in DOMAIN segs :
              /\ Focal \in Ends(segs[i])
              /\ Ends(segs[i]) \subseteq {Focal} \cup Range(view.neighbors)
              /\ Ends(segs[i]) \subseteq DOMAIN view.pos
              /\ segs[i].from = view.pos[segs[i].u]
              /\ segs[i].to = view.pos[segs[i].v]

\* a layout of two neighbours that have an edge between them
C22_Witness ==
    /\ Laid
    /\ Range(view.neighbors) = {A, B}
    /\ has_edge(app.G.v, A, B)
    /\ Len(view.segments) = 2

----------------------------------------------------------------------------
(* C23: in streamlit_page_new.py and stream_page_new1.py data_loaded is    *)
(* False until a load_data run has succeeded in every step; when it is     *)
(* True the parsed snapshot is held (it is not None); a load that fails    *)
(* part-way leaves it False, even when the graph was already assigned, and *)
(* a view that finds it False reads nothing else of the app.               *)

DataLoadedFlag(v) ==
    variant = v =>
        /\ (pc = "start" \/ ~Rendered) => ~app.data_loaded
        /\ app.data_loaded => lastLoad = "ok"
        /\ app.data_loaded => app.step3_data.k = "some"
        /\ lastLoad \in {"NotFound", "Malformed"} => ~app.data_loaded
        /\ (Rendered /\ ~app.data_loaded) => view.reads \subseteq {"data_loaded"}

C23_DataLoadedInvariant == DataLoadedFlag("v2") /\ DataLoadedFlag("v3")

\* the part of the claim about streamlit_page_new.py alone
C23_HoldsInNewPage == DataLoadedFlag("v2")

\* data_loaded is never set back to False
C23_NeverReset == [][app.data_loaded => app'.data_loaded]_vars

\* streamlit_page_new.py: a load that failed after the graph was assigned,
\* and a view that found data_loaded False
C23_PartialLoadUnread ==
    /\ variant = "v2"
    /\ lastLoad = "Malformed" /\ app.G.k = "some" /\ ~app.data_loaded
    /\ Rendered /\ view.reads = {"data_loaded"}

====



